---- MODULE Spec2Model ----
(***************************************************************************)
(* Model of src/utility/CameraUtility.py (BlenderProc).                    *)
(*                                                                         *)
(* The host scene (bpy.context.scene) is the state: the camera data block, *)
(* the render settings, the depth-of-field block, the frame range with the *)
(* keyframed poses and the GlobalStorage key-value store.  Every static    *)
(* method of CameraUtility is an action; set_lens_distortion, which loops, *)
(* is one action per loop iteration plus its prologue and epilogue.        *)
(*                                                                         *)
(* Python floats are modelled exactly: camera quantities are rationals     *)
(* <<numerator, denominator>> in lowest terms, reprojection errors are     *)
(* binary numbers <<mantissa, exponent>> (mantissa * 2^exponent).          *)
(***************************************************************************)
EXTENDS Integers, Sequences, FiniteSets, TLC

VARIABLES
    cam,          \* bpy.context.scene.camera.data (lens, shift, clip, sensor...)
    render,       \* bpy.context.scene.render (resolution, pixel aspect)
    dof,          \* camera.dof of the camera handed to add_depth_of_field
    frame_end,    \* bpy.context.scene.frame_end
    keyframes,    \* frame -> pose keyframed on the camera object ("none": no key)
    matrix_world, \* cam_ob.matrix_world
    storage,      \* GlobalStorage: key -> value, a function on the keys set
    call,         \* the last finished call: its name, arguments and outcome
    noneRun,      \* the add_camera_pose(frame=None) calls since the last other call
    pc,           \* position inside set_lens_distortion
    loc           \* the local variables of set_lens_distortion

vars == <<cam, render, dof, frame_end, keyframes, matrix_world, storage, call,
          noneRun, pc, loc>>

-----------------------------------------------------------------------------
(* Exact rational arithmetic for the Python float expressions.             *)

Abs(n) == IF n < 0 THEN -n ELSE n

RECURSIVE GCD(_, _)
GCD(a, b) == IF b = 0 THEN a ELSE GCD(b, a % b)

RNorm(n, d) ==
    LET g == GCD(Abs(n), Abs(d))
        s == IF d < 0 THEN -1 ELSE 1
    IN  <<(s * n) \div g, (s * d) \div g>>

R(n) == <<n, 1>>
RAdd(a, b) == RNorm(a[1] * b[2] + b[1] * a[2], a[2] * b[2])
RSub(a, b) == RNorm(a[1] * b[2] - b[1] * a[2], a[2] * b[2])
RMul(a, b) == RNorm(a[1] * b[1], a[2] * b[2])
RDiv(a, b) == RNorm(a[1] * b[2], a[2] * b[1])
RNeg(a) == <<-a[1], a[2]>>
RLt(a, b) == a[1] * b[2] < b[1] * a[2]
RGe(a, b) == ~RLt(a, b)
RGt(a, b) == RLt(b, a)

-----------------------------------------------------------------------------
(* Input domains of the model.                                             *)

SensorFits == {"AUTO", "HORIZONTAL", "VERTICAL"}
LensUnits == {"MILLIMETERS", "FOV", "DEGREES"}
Widths == {2, 4}
Heights == {3}
FocalPxX == {R(1), R(2), <<1, 40>>}
FocalPxY == {R(1), R(2)}
PrincipalPxX == {R(1), <<3, 2>>}
PrincipalPxY == {<<3, 2>>}
ClipStarts == {<<1, 10>>, R(1)}
ClipEnds == {R(1000)}
Lenses == {<<1, 2>>, R(1), R(50)}
AspectsX == {<<4, 3>>}
AspectsY == {R(1)}
ShiftsX == {<<1, 4>>}
ShiftsY == {<<-1, 4>>}

NoCall == [op |-> "none"]

-----------------------------------------------------------------------------
(* set_intrinsics_from_blender_params: the result is the new camera and    *)
(* render blocks and the exception raised ("none" when it completes).  The *)
(* lens unit is assigned before the focal length is tested, so a raise on  *)
(* lens < 1 leaves lens_unit changed.                                      *)

set_intrinsics_from_blender_params_unchecked(c, r, lens, image_width, image_height, clip_start, clip_end, pixel_aspect_x, pixel_aspect_y, shift_x, shift_y, lens_unit) ==
    LET c1 == IF lens_unit = "MILLIMETERS"
                THEN [c EXCEPT !.lens_unit = lens_unit, !.lens = lens]
                ELSE [c EXCEPT !.lens_unit = lens_unit, !.angle = lens]
    IN  [cam |-> [c1 EXCEPT !.clip_start = clip_start, !.clip_end = clip_end,
                            !.shift_x = shift_x, !.shift_y = shift_y],
         render |-> [r EXCEPT !.resolution_x = image_width,
                              !.resolution_y = image_height,
                              !.pixel_aspect_x = pixel_aspect_x,
                              !.pixel_aspect_y = pixel_aspect_y],
         exc |-> "none"]

set_intrinsics_from_blender_params(c, r, lens, image_width, image_height, clip_start, clip_end, pixel_aspect_x, pixel_aspect_y, shift_x, shift_y, lens_unit) ==
    IF lens_unit = "MILLIMETERS" /\ RLt(lens, R(1))
    THEN [cam |-> [c EXCEPT !.lens_unit = lens_unit], render |-> r,
          exc |-> "focal_length_below_1mm"]
    ELSE IF lens_unit \notin {"MILLIMETERS", "FOV"}
    THEN [cam |-> c, render |-> r, exc |-> "no_such_lens_unit"]
    ELSE LET c1 == IF lens_unit = "MILLIMETERS"
                     THEN [c EXCEPT !.lens_unit = lens_unit, !.lens = lens]
                     ELSE [c EXCEPT !.lens_unit = lens_unit, !.angle = lens]
         IN  [cam |-> [c1 EXCEPT !.clip_start = clip_start, !.clip_end = clip_end,
                                 !.shift_x = shift_x, !.shift_y = shift_y],
              render |-> [r EXCEPT !.resolution_x = image_width,
                                   !.resolution_y = image_height,
                                   !.pixel_aspect_x = pixel_aspect_x,
                                   !.pixel_aspect_y = pixel_aspect_y],
              exc |-> "none"]

get_sensor_size(c) ==
    IF c.sensor_fit = "VERTICAL" THEN c.sensor_height ELSE c.sensor_width

get_view_fac_in_px(c, pixel_aspect_x, pixel_aspect_y, resolution_x_in_px, resolution_y_in_px) ==
    LET sensor_fit ==
            IF c.sensor_fit = "AUTO"
            THEN IF RGe(RMul(pixel_aspect_x, R(resolution_x_in_px)),
                        RMul(pixel_aspect_y, R(resolution_y_in_px)))
                 THEN "HORIZONTAL" ELSE "VERTICAL"
            ELSE c.sensor_fit
        pixel_aspect_ratio == RDiv(pixel_aspect_y, pixel_aspect_x)
    IN  IF sensor_fit = "HORIZONTAL"
        THEN R(resolution_x_in_px)
        ELSE RMul(pixel_aspect_ratio, R(resolution_y_in_px))

(* set_intrinsics_from_K_matrix: K is the record of the four entries the   *)
(* code reads, K[0][0], K[1][1], K[0][2], K[1][2].                         *)
set_intrinsics_from_K_matrix(c, r, K, image_width, image_height, clip_start, clip_end) ==
    LET fx == K.fx
        fy == K.fy
        cx == K.cx
        cy == K.cy
        pixel_aspect_y == IF RGt(fx, fy) THEN RDiv(fx, fy) ELSE R(1)
        pixel_aspect_x == IF RLt(fx, fy) THEN RDiv(fy, fx) ELSE R(1)
        pixel_aspect_ratio == RDiv(pixel_aspect_y, pixel_aspect_x)
        view_fac_in_px == get_view_fac_in_px(c, pixel_aspect_x, pixel_aspect_y,
                                             image_width, image_height)
        sensor_size_in_mm == get_sensor_size(c)
        f_in_mm == RDiv(RMul(fx, sensor_size_in_mm), view_fac_in_px)
        shift_x == RDiv(RSub(cx, RDiv(R(image_width - 1), R(2))),
                        RNeg(view_fac_in_px))
        shift_y == RMul(RDiv(RSub(cy, RDiv(R(image_height - 1), R(2))),
                             view_fac_in_px),
                        pixel_aspect_ratio)
    IN  set_intrinsics_from_blender_params(c, r, f_in_mm, image_width,
            image_height, clip_start, clip_end, pixel_aspect_x, pixel_aspect_y,
            shift_x, shift_y, "MILLIMETERS")

get_intrinsics_as_K_matrix_centered(c, r) ==
    LET f_in_mm == c.lens
        resolution_x_in_px == r.resolution_x
        resolution_y_in_px == r.resolution_y
        pixel_aspect_ratio == RDiv(r.pixel_aspect_y, r.pixel_aspect_x)
        view_fac_in_px == get_view_fac_in_px(c, r.pixel_aspect_x, r.pixel_aspect_y,
                                             resolution_x_in_px, resolution_y_in_px)
        sensor_size_in_mm == get_sensor_size(c)
        fx == RMul(RDiv(f_in_mm, sensor_size_in_mm), view_fac_in_px)
        fy == RDiv(fx, pixel_aspect_ratio)
    IN  [fx |-> fx, fy |-> fy,
         cx |-> RSub(RDiv(R(resolution_x_in_px), R(2)),
                     RMul(c.shift_x, view_fac_in_px)),
         cy |-> RAdd(RDiv(R(resolution_y_in_px), R(2)),
                     RDiv(RMul(c.shift_y, view_fac_in_px), pixel_aspect_ratio))]

get_intrinsics_as_K_matrix(c, r) ==
    LET f_in_mm == c.lens
        resolution_x_in_px == r.resolution_x
        resolution_y_in_px == r.resolution_y
        pixel_aspect_ratio == RDiv(r.pixel_aspect_y, r.pixel_aspect_x)
        view_fac_in_px == get_view_fac_in_px(c, r.pixel_aspect_x, r.pixel_aspect_y,
                                             resolution_x_in_px, resolution_y_in_px)
        sensor_size_in_mm == get_sensor_size(c)
        fx == RMul(RDiv(f_in_mm, sensor_size_in_mm), view_fac_in_px)
        fy == RDiv(fx, pixel_aspect_ratio)
        cx == RSub(RDiv(R(resolution_x_in_px - 1), R(2)),
                   RMul(c.shift_x, view_fac_in_px))
        cy == RAdd(RDiv(R(resolution_y_in_px - 1), R(2)),
                   RDiv(RMul(c.shift_y, view_fac_in_px), pixel_aspect_ratio))
    IN  [fx |-> fx, fy |-> fy, cx |-> cx, cy |-> cy]

-----------------------------------------------------------------------------
(* The scene after Initializer/Blender start-up: a perspective camera with *)
(* a 36 x 24 mm sensor and a 50 mm lens, no depth of field, no keyframes,  *)
(* an empty GlobalStorage.  The sensor fit and the first free frame are    *)
(* whatever the loaded scene left them at.                                 *)

DefaultCam(fit) ==
    [lens_unit |-> "MILLIMETERS", lens |-> R(50), angle |-> R(0),
     sensor_fit |-> fit, sensor_width |-> R(36), sensor_height |-> R(24),
     shift_x |-> R(0), shift_y |-> R(0),
     clip_start |-> <<1, 100>>, clip_end |-> R(100)]

DefaultRender ==
    [resolution_x |-> 8, resolution_y |-> 6,
     pixel_aspect_x |-> R(1), pixel_aspect_y |-> R(1)]

DefaultDof ==
    [use_dof |-> FALSE, focus_object |-> "None", focus_distance |-> 10,
     aperture_fstop |-> 0, aperture_blades |-> 0, aperture_rotation |-> 0,
     aperture_ratio |-> 0]

EmptyStorage == <<>>

InitCamera(fits) ==
    /\ cam \in {DefaultCam(fit) : fit \in fits}
    /\ render = DefaultRender
    /\ dof = DefaultDof

InitFrames(firstFrames) ==
    /\ frame_end \in firstFrames
    /\ keyframes = <<>>
    /\ matrix_world = "identity"
    /\ noneRun = [f0 |-> frame_end, calls |-> <<>>]

InitIdle ==
    /\ storage = EmptyStorage
    /\ call = NoCall
    /\ pc = "idle"
    /\ loc = <<>>

-----------------------------------------------------------------------------
(* Intrinsics: the three calls that set and read the intrinsics.           *)

InitIntr ==
    /\ InitCamera(SensorFits)
    /\ InitFrames({0})
    /\ InitIdle

CallSetIntrinsicsFromBlenderParams ==
    \E lens \in Lenses, image_width \in Widths, image_height \in Heights,
       clip_start \in ClipStarts, clip_end \in ClipEnds,
       pixel_aspect_x \in AspectsX, pixel_aspect_y \in AspectsY,
       shift_x \in ShiftsX, shift_y \in ShiftsY, lens_unit \in LensUnits :
        LET out == set_intrinsics_from_blender_params(cam, render, lens,
                       image_width, image_height, clip_start, clip_end,
                       pixel_aspect_x, pixel_aspect_y, shift_x, shift_y, lens_unit)
        IN  /\ pc = "idle"
            /\ cam' = out.cam
            /\ render' = out.render
            /\ call' = [op |-> "set_intrinsics_from_blender_params",
                        lens |-> lens, image_width |-> image_width,
                        image_height |-> image_height, clip_start |-> clip_start,
                        clip_end |-> clip_end, pixel_aspect_x |-> pixel_aspect_x,
                        pixel_aspect_y |-> pixel_aspect_y, shift_x |-> shift_x,
                        shift_y |-> shift_y, lens_unit |-> lens_unit,
                        exc |-> out.exc]
            /\ UNCHANGED <<dof, frame_end, keyframes, matrix_world, storage,
                           noneRun, pc, loc>>

CallSetIntrinsicsFromKMatrix ==
    \E fx \in FocalPxX, fy \in FocalPxY, cx \in PrincipalPxX, cy \in PrincipalPxY,
       image_width \in Widths, image_height \in Heights,
       clip_start \in {<<1, 10>>}, clip_end \in ClipEnds :
        LET K == [fx |-> fx, fy |-> fy, cx |-> cx, cy |-> cy]
            out == set_intrinsics_from_K_matrix(cam, render, K, image_width,
                       image_height, clip_start, clip_end)
        IN  /\ pc = "idle"
            /\ cam' = out.cam
            /\ render' = out.render
            /\ call' = [op |-> "set_intrinsics_from_K_matrix", K |-> K,
                        image_width |-> image_width,
                        image_height |-> image_height, clip_start |-> clip_start,
                        clip_end |-> clip_end, exc |-> out.exc]
            /\ UNCHANGED <<dof, frame_end, keyframes, matrix_world, storage,
                           noneRun, pc, loc>>

CallGetIntrinsicsAsKMatrix ==
    /\ pc = "idle"
    /\ call' = [op |-> "get_intrinsics_as_K_matrix",
                ret |-> get_intrinsics_as_K_matrix(cam, render)]
    /\ UNCHANGED <<cam, render, dof, frame_end, keyframes, matrix_world,
                   storage, noneRun, pc, loc>>

NextIntr ==
    \/ CallSetIntrinsicsFromBlenderParams
    \/ CallSetIntrinsicsFromKMatrix
    \/ CallGetIntrinsicsAsKMatrix

SpecIntr == InitIntr /\ [][NextIntr]_vars

\* C1: whenever set_intrinsics_from_K_matrix(K, width, height) has completed
\* without raising, get_intrinsics_as_K_matrix() evaluated on the resulting
\* camera and render settings yields the fx, fy, cx and cy that were passed
\* in, for every sensor fit.
RoundTripOfIntrinsics ==
    (call.op = "set_intrinsics_from_K_matrix" /\ call.exc = "none")
        => get_intrinsics_as_K_matrix(cam, render) = call.K

RoundTripReached ==
    /\ call.op = "set_intrinsics_from_K_matrix"
    /\ call.exc = "none"
    /\ cam.sensor_fit = "AUTO"
    /\ RLt(call.K.fx, call.K.fy)
    /\ call.image_width < call.image_height
    /\ cam.shift_x # R(0)
    /\ cam.shift_y # R(0)

\* C2: set_intrinsics_from_blender_params raises exactly when lens_unit is
\* MILLIMETERS and lens < 1, or lens_unit is neither MILLIMETERS nor FOV; in
\* every other case it completes and the camera and render settings equal
\* the arguments (lens goes to cam.lens for MILLIMETERS, to cam.angle for FOV).
BlenderParamsRaiseExactly ==
    call.op = "set_intrinsics_from_blender_params" =>
        /\ (call.exc # "none") <=>
              \/ (call.lens_unit = "MILLIMETERS" /\ RLt(call.lens, R(1)))
              \/ call.lens_unit \notin {"MILLIMETERS", "FOV"}
        /\ call.exc = "none" =>
              /\ cam.lens_unit = call.lens_unit
              /\ call.lens_unit = "MILLIMETERS" => cam.lens = call.lens
              /\ call.lens_unit = "FOV" => cam.angle = call.lens
              /\ render.resolution_x = call.image_width
              /\ render.resolution_y = call.image_height
              /\ cam.clip_start = call.clip_start
              /\ cam.clip_end = call.clip_end
              /\ render.pixel_aspect_x = call.pixel_aspect_x
              /\ render.pixel_aspect_y = call.pixel_aspect_y
              /\ cam.shift_x = call.shift_x
              /\ cam.shift_y = call.shift_y

BlenderParamsFovCompleted ==
    /\ call.op = "set_intrinsics_from_blender_params"
    /\ call.lens_unit = "FOV"
    /\ call.lens = R(1)
    /\ call.exc = "none"
    /\ cam.angle = R(1)

-----------------------------------------------------------------------------
(* Camera poses.  add_camera_pose(cam2world_matrix, frame): NoFrame stands *)
(* for frame=None.  The result is the new frame range, keyframes and world *)
(* matrix and the returned frame.                                          *)

MaxFrame == 4
NoFrame == -1
Poses == {"poseA", "poseB"}

add_camera_pose_no_extend(fe, kf, cam2world_matrix, frame) ==
    LET frame1 == IF frame = NoFrame THEN fe ELSE frame
    IN  [frame_end |-> IF fe < frame1 THEN frame1 ELSE fe,
         keyframes |-> (frame1 :> cam2world_matrix) @@ kf,
         matrix_world |-> cam2world_matrix,
         ret |-> frame1]

add_camera_pose_set_end(fe, kf, cam2world_matrix, frame) ==
    LET frame1 == IF frame = NoFrame THEN fe ELSE frame
    IN  [frame_end |-> frame1 + 1,
         keyframes |-> (frame1 :> cam2world_matrix) @@ kf,
         matrix_world |-> cam2world_matrix,
         ret |-> frame1]

add_camera_pose(fe, kf, cam2world_matrix, frame) ==
    LET frame1 == IF frame = NoFrame THEN fe ELSE frame
    IN  [frame_end |-> IF fe < frame1 + 1 THEN frame1 + 1 ELSE fe,
         keyframes |-> (frame1 :> cam2world_matrix) @@ kf,
         matrix_world |-> cam2world_matrix,
         ret |-> frame1]

InitPose ==
    /\ InitCamera({"AUTO"})
    /\ InitFrames({0, 1})
    /\ InitIdle

CallAddCameraPose ==
    \E cam2world_matrix \in Poses, frame \in {NoFrame} \cup (0 .. MaxFrame - 1) :
        LET out == add_camera_pose(frame_end, keyframes, cam2world_matrix, frame)
        IN  /\ pc = "idle"
            /\ out.frame_end <= MaxFrame
            /\ frame_end' = out.frame_end
            /\ keyframes' = out.keyframes
            /\ matrix_world' = out.matrix_world
            /\ call' = [op |-> "add_camera_pose", frame |-> frame,
                        cam2world_matrix |-> cam2world_matrix, ret |-> out.ret]
            /\ noneRun' = IF frame = NoFrame
                            THEN [noneRun EXCEPT !.calls = Append(@,
                                     [ret |-> out.ret, pose |-> cam2world_matrix])]
                            ELSE [f0 |-> out.frame_end, calls |-> <<>>]
            /\ UNCHANGED <<cam, render, dof, storage, pc, loc>>

NextPose == CallAddCameraPose

SpecPose == InitPose /\ [][NextPose]_vars

\* C3: n successive add_camera_pose calls with frame=None, starting from
\* frame_end = f0, return the consecutive frames f0, f0+1, ..., f0+n-1 (each
\* the value frame_end had before that call), every one of those frames
\* still holds the pose of its own call, and frame_end is f0+n.
NewFramePerPose ==
    /\ frame_end = noneRun.f0 + Len(noneRun.calls)
    /\ \A i \in 1 .. Len(noneRun.calls) :
          /\ noneRun.calls[i].ret = noneRun.f0 + i - 1
          /\ noneRun.calls[i].ret \in DOMAIN keyframes
          /\ keyframes[noneRun.calls[i].ret] = noneRun.calls[i].pose

ThreePosesAppended ==
    /\ Len(noneRun.calls) = 3
    /\ noneRun.f0 = 1
    /\ noneRun.calls[1].pose # noneRun.calls[3].pose

\* C11: after any sequence of add_camera_pose calls, with frame=None or an
\* explicit non-negative frame, frame_end is strictly greater than every
\* keyframed frame and the frame the last call returned; no call lowers
\* frame_end; a call with an explicit frame < frame_end - 1 leaves frame_end
\* unchanged and returns the frame it was given.
KeyframesBelowFrameEnd ==
    /\ [](/\ \A f \in DOMAIN keyframes : f < frame_end
          /\ call.op = "add_camera_pose" => call.ret \in DOMAIN keyframes)
    /\ [][/\ frame_end' >= frame_end
          /\ (call'.frame # NoFrame /\ call'.frame < frame_end - 1)
                => (frame_end' = frame_end /\ call'.ret = call'.frame)]_vars

EarlierFrameRekeyed ==
    /\ call.op = "add_camera_pose"
    /\ call.frame = 0
    /\ call.ret = 0
    /\ frame_end = 3
    /\ DOMAIN keyframes = {0, 2}
    /\ keyframes[0] # keyframes[2]

-----------------------------------------------------------------------------
(* Depth of field.  add_depth_of_field(camera, focal_point_obj, ...): the  *)
(* result is the new camera.dof block and the exception raised.  use_dof   *)
(* is switched on before the focus arguments are examined.                 *)

FocalPointObjs == {"None", "empty1"}
FocalDistances == {-1, 0, 2}
FStops == {3, 8}
Blades == {1, 5}
Rotations == {4}
Ratios == {6}

add_depth_of_field(d, focal_point_obj, fstop_value, aperture_blades, aperture_rotation, aperture_ratio, focal_distance) ==
    LET d1 == [d EXCEPT !.use_dof = TRUE]
        d2 == IF focal_point_obj # "None"
                THEN [d1 EXCEPT !.focus_object = focal_point_obj]
                ELSE [d1 EXCEPT !.focus_distance = focal_distance]
    IN  IF focal_point_obj = "None" /\ ~(focal_distance >= 0)
        THEN [dof |-> d1, exc |-> "RuntimeError"]
        ELSE [dof |-> [d2 EXCEPT !.aperture_fstop = fstop_value,
                                 !.aperture_blades = aperture_blades,
                                 !.aperture_rotation = aperture_rotation,
                                 !.aperture_ratio = aperture_ratio],
              exc |-> "none"]

InitDof ==
    /\ InitCamera({"AUTO"})
    /\ InitFrames({0})
    /\ InitIdle

CallAddDepthOfField ==
    \E focal_point_obj \in FocalPointObjs, fstop_value \in FStops,
       aperture_blades \in Blades, aperture_rotation \in Rotations,
       aperture_ratio \in Ratios, focal_distance \in FocalDistances :
        LET out == add_depth_of_field(dof, focal_point_obj, fstop_value,
                       aperture_blades, aperture_rotation, aperture_ratio,
                       focal_distance)
        IN  /\ pc = "idle"
            /\ dof' = out.dof
            /\ call' = [op |-> "add_depth_of_field",
                        focal_point_obj |-> focal_point_obj,
                        fstop_value |-> fstop_value,
                        aperture_blades |-> aperture_blades,
                        aperture_rotation |-> aperture_rotation,
                        aperture_ratio |-> aperture_ratio,
                        focal_distance |-> focal_distance, exc |-> out.exc]
            /\ UNCHANGED <<cam, render, frame_end, keyframes, matrix_world,
                           storage, noneRun, pc, loc>>

NextDof == CallAddDepthOfField

SpecDof == InitDof /\ [][NextDof]_vars

\* C4: add_depth_of_field with focal_point_obj = None raises RuntimeError
\* unless focal_distance is higher than zero (0.0 and every negative value
\* are rejected); with a focal_point_obj it never raises.
DofRaisesUnlessDistancePositive ==
    call.op = "add_depth_of_field" =>
        IF call.focal_point_obj = "None"
        THEN (call.exc = "RuntimeError") <=> ~(call.focal_distance > 0)
        ELSE call.exc = "none"

-----------------------------------------------------------------------------
(* Lens distortion.  A reprojection error is a binary floating-point       *)
(* number <<m, e>> = m * 2^e with a small mantissa m >= 0.                 *)

RECURSIVE Pow2(_)
Pow2(n) == IF n = 0 THEN 1 ELSE 2 * Pow2(n - 1)

\* a > b, without forming a number beyond 32 bits
BGt(a, b) ==
    LET d == a[2] - b[2]
    IN  IF a[1] = 0 THEN FALSE
        ELSE IF b[1] = 0 THEN TRUE
        ELSE IF d >= 0
        THEN (IF d >= 31 THEN TRUE ELSE a[1] > b[1] \div Pow2(d))
        ELSE (IF -d >= 31 THEN FALSE
              ELSE b[1] < (a[1] + Pow2(-d) - 1) \div Pow2(-d))

\* while res[-1] > 0.2: error > 1/5
AboveThreshold(error) == BGt(<<5 * error[1], error[2]>>, <<1, 0>>)
\* res = [1e3]: 1000 = 125 * 2^3
InitialRes == <<125, 3>>
\* error > 1e9
AboveUnstableLimit(error) == BGt(error, <<1000000000, 0>>)
\* it > 1e3
MaxIterations == 1000
\* res[-1] > res[-2] * .999
AbovePoint999Of(error, previous) ==
    BGt(<<1000 * error[1], error[2]>>, <<999 * previous[1], previous[2]>>)

(* The measured error np.max(np.hypot(...)) is an input of the model: the  *)
(* first one is 0, 0.125, 0.375, 2^31 or 2^MaxErrorExp, every later one is *)
(* 0, 0.125, or half, once or twice the previous one.  Error sequences are *)
(* explored up to MaxHalvings stalls.                                      *)
MaxErrorExp == 1010
MaxHalvings == 3
Errors(it, previous) ==
    IF it = 0
    THEN {<<0, 0>>, <<1, -3>>, <<3, -3>>, <<1, 31>>, <<1, MaxErrorExp>>}
    ELSE {<<0, 0>>, <<1, -3>>, <<previous[1], previous[2] - 1>>, previous,
          <<previous[1], previous[2] + 1>>}

(* The arrays x, y are not computed: loc.x is the number of the iterate    *)
(* they hold (0: P_und), loc.x_measured the iterate res[-1] was measured   *)
(* on.  x - (x_ - P_und) * factor differs from x exactly when some pixel   *)
(* has x_ # P_und or y_ # P_und, that is when error # 0 (fx, fy, factor    *)
(* are positive).  loc.res holds the last two entries of res, the only     *)
(* ones read.                                                              *)
set_lens_distortion_begin(c, r) ==
    [original_image_resolution |-> <<r.resolution_y, r.resolution_x>>,
     camera_K_matrix |-> get_intrinsics_as_K_matrix(c, r),
     x |-> 0, x_measured |-> -1,
     res |-> <<InitialRes>>, it |-> 0, factor |-> R(1)]

(* Variants of the iteration with one slip each: the iteration cap is not   *)
(* tested; it is not incremented; the stall test also runs in the first    *)
(* iteration.                                                              *)
set_lens_distortion_iteration_no_cap(l, error) ==
    LET it == l.it + 1
        res == <<l.res[Len(l.res)], error>>
        stalls == (it > 1) /\ AbovePoint999Of(res[2], res[1])
        factor == IF stalls THEN RMul(l.factor, <<1, 2>>) ELSE l.factor
        exc == IF stalls /\ AboveUnstableLimit(error) THEN "unstable"
               ELSE "none"
        l1 == [l EXCEPT !.res = res, !.it = it, !.factor = factor,
                        !.x_measured = l.x]
    IN  [loc |-> IF exc = "none"
                   THEN [l1 EXCEPT !.x = IF error[1] = 0 THEN l.x ELSE it]
                   ELSE l1,
         exc |-> exc]

set_lens_distortion_iteration_no_count(l, error) ==
    LET it == l.it
        res == <<l.res[Len(l.res)], error>>
        stalls == (it > 1) /\ AbovePoint999Of(res[2], res[1])
        factor == IF stalls THEN RMul(l.factor, <<1, 2>>) ELSE l.factor
        exc == IF stalls /\ it > MaxIterations THEN "stalled_after_1000_iterations"
               ELSE IF stalls /\ AboveUnstableLimit(error) THEN "unstable"
               ELSE "none"
        l1 == [l EXCEPT !.res = res, !.it = it, !.factor = factor,
                        !.x_measured = l.x]
    IN  [loc |-> IF exc = "none"
                   THEN [l1 EXCEPT !.x = IF error[1] = 0 THEN l.x ELSE it]
                   ELSE l1,
         exc |-> exc]

set_lens_distortion_iteration_first_too(l, error) ==
    LET it == l.it + 1
        res == <<l.res[Len(l.res)], error>>
        stalls == (it >= 1) /\ AbovePoint999Of(res[2], res[1])
        factor == IF stalls THEN RMul(l.factor, <<1, 2>>) ELSE l.factor
        exc == IF stalls /\ it > MaxIterations THEN "stalled_after_1000_iterations"
               ELSE IF stalls /\ AboveUnstableLimit(error) THEN "unstable"
               ELSE "none"
        l1 == [l EXCEPT !.res = res, !.it = it, !.factor = factor,
                        !.x_measured = l.x]
    IN  [loc |-> IF exc = "none"
                   THEN [l1 EXCEPT !.x = IF error[1] = 0 THEN l.x ELSE it]
                   ELSE l1,
         exc |-> exc]

set_lens_distortion_iteration(l, error) ==
    LET it == l.it + 1
        res == <<l.res[Len(l.res)], error>>
        stalls == (it > 1) /\ AbovePoint999Of(res[2], res[1])
        factor == IF stalls THEN RMul(l.factor, <<1, 2>>) ELSE l.factor
        exc == IF stalls /\ it > MaxIterations THEN "stalled_after_1000_iterations"
               ELSE IF stalls /\ AboveUnstableLimit(error) THEN "unstable"
               ELSE "none"
        l1 == [l EXCEPT !.res = res, !.it = it, !.factor = factor,
                        !.x_measured = l.x]
    IN  [loc |-> IF exc = "none"
                   THEN [l1 EXCEPT !.x = IF error[1] = 0 THEN l.x ELSE it]
                   ELSE l1,
         exc |-> exc]

\* GlobalStorage.set(key, value)
GlobalStorage_set(st, key, value) == (key :> value) @@ st

(* Lines 355-396.  u = fx * x + cx and v = fy * y + cy are arrays of the   *)
(* iterate loc.x; their rounded extrema min_und_column_needed, ... are     *)
(* inputs of the model.                                                    *)
(* Variants with one slip each: the resolution is read after it was       *)
(* enlarged; the clipping arguments are left at their defaults.            *)
set_lens_distortion_finish_new_res(c, r, st, l, min_und_column_needed, max_und_column_needed, min_und_row_needed, max_und_row_needed) ==
    LET cx == l.camera_K_matrix.cx
        cy == l.camera_K_matrix.cy
        columns_needed == max_und_column_needed - (min_und_column_needed - 1)
        rows_needed == max_und_row_needed - (min_und_row_needed - 1)
        cx_new == RAdd(RSub(cx, R(min_und_column_needed - 1)), R(1))
        cy_new == RAdd(RSub(cy, R(min_und_row_needed - 1)), R(1))
        new_image_resolution == <<columns_needed + 2, rows_needed + 2>>
        mapping_coords == [x |-> l.x,
                           shifted_by |-> <<RSub(cy_new, cy), RSub(cx_new, cx)>>]
        camera_changed_K_matrix ==
            [get_intrinsics_as_K_matrix(c, r) EXCEPT !.cx = cx_new, !.cy = cy_new]
        out == set_intrinsics_from_K_matrix(c, r, camera_changed_K_matrix,
                   new_image_resolution[1], new_image_resolution[2],
                   c.clip_start, c.clip_end)
    IN  [cam |-> out.cam, render |-> out.render, exc |-> out.exc,
         cx_new |-> cx_new, cy_new |-> cy_new,
         storage |-> IF out.exc = "none"
                       THEN GlobalStorage_set(st, "_lens_distortion_is_used",
                                [mapping_coords |-> mapping_coords,
                                 original_image_res |->
                                     <<out.render.resolution_y,
                                       out.render.resolution_x>>])
                       ELSE st]

set_lens_distortion_finish_default_clip(c, r, st, l, min_und_column_needed, max_und_column_needed, min_und_row_needed, max_und_row_needed) ==
    LET cx == l.camera_K_matrix.cx
        cy == l.camera_K_matrix.cy
        columns_needed == max_und_column_needed - (min_und_column_needed - 1)
        rows_needed == max_und_row_needed - (min_und_row_needed - 1)
        cx_new == RAdd(RSub(cx, R(min_und_column_needed - 1)), R(1))
        cy_new == RAdd(RSub(cy, R(min_und_row_needed - 1)), R(1))
        new_image_resolution == <<columns_needed + 2, rows_needed + 2>>
        mapping_coords == [x |-> l.x,
                           shifted_by |-> <<RSub(cy_new, cy), RSub(cx_new, cx)>>]
        camera_changed_K_matrix ==
            [get_intrinsics_as_K_matrix(c, r) EXCEPT !.cx = cx_new, !.cy = cy_new]
        out == set_intrinsics_from_K_matrix(c, r, camera_changed_K_matrix,
                   new_image_resolution[1], new_image_resolution[2],
                   <<1, 10>>, R(1000))
    IN  [cam |-> out.cam, render |-> out.render, exc |-> out.exc,
         cx_new |-> cx_new, cy_new |-> cy_new,
         storage |-> IF out.exc = "none"
                       THEN GlobalStorage_set(st, "_lens_distortion_is_used",
                                [mapping_coords |-> mapping_coords,
                                 original_image_res |-> l.original_image_resolution])
                       ELSE st]

set_lens_distortion_finish(c, r, st, l, min_und_column_needed, max_und_column_needed, min_und_row_needed, max_und_row_needed) ==
    LET cx == l.camera_K_matrix.cx
        cy == l.camera_K_matrix.cy
        columns_needed == max_und_column_needed - (min_und_column_needed - 1)
        rows_needed == max_und_row_needed - (min_und_row_needed - 1)
        cx_new == RAdd(RSub(cx, R(min_und_column_needed - 1)), R(1))
        cy_new == RAdd(RSub(cy, R(min_und_row_needed - 1)), R(1))
        new_image_resolution == <<columns_needed + 2, rows_needed + 2>>
        mapping_coords == [x |-> l.x,
                           shifted_by |-> <<RSub(cy_new, cy), RSub(cx_new, cx)>>]
        camera_changed_K_matrix ==
            [get_intrinsics_as_K_matrix(c, r) EXCEPT !.cx = cx_new, !.cy = cy_new]
        out == set_intrinsics_from_K_matrix(c, r, camera_changed_K_matrix,
                   new_image_resolution[1], new_image_resolution[2],
                   c.clip_start, c.clip_end)
    IN  [cam |-> out.cam, render |-> out.render, exc |-> out.exc,
         cx_new |-> cx_new, cy_new |-> cy_new,
         storage |-> IF out.exc = "none"
                       THEN GlobalStorage_set(st, "_lens_distortion_is_used",
                                [mapping_coords |-> mapping_coords,
                                 original_image_res |-> l.original_image_resolution])
                       ELSE st]

DistLenses == {R(1), R(50)}
DistFits == {"AUTO", "VERTICAL"}
UndColumnMins == {-1, 0}
UndColumnMaxOvershoots == {0, 1}
UndRowMins == {-2}
UndRowMaxOvershoots == {0}

(* The scene set_lens_distortion is called on: intrinsics as a previous    *)
(* set_intrinsics_from_blender_params call left them.                      *)
InitDist ==
    /\ cam \in {[DefaultCam(fit) EXCEPT !.lens = lens, !.shift_x = <<1, 4>>,
                    !.shift_y = <<-1, 4>>, !.clip_start = <<1, 2>>,
                    !.clip_end = R(50)] : fit \in DistFits, lens \in DistLenses}
    /\ render = [resolution_x |-> 4, resolution_y |-> 3,
                 pixel_aspect_x |-> <<4, 3>>, pixel_aspect_y |-> R(1)]
    /\ dof = DefaultDof
    /\ InitFrames({0})
    /\ InitIdle

SetLensDistortionBegin ==
    /\ pc = "idle"
    /\ call.op = "none"
    /\ pc' = "loop"
    /\ loc' = set_lens_distortion_begin(cam, render)
    /\ call' = [op |-> "set_lens_distortion", exc |-> "running",
                before |-> [cam |-> cam, render |-> render, storage |-> storage]]
    /\ UNCHANGED <<cam, render, dof, frame_end, keyframes, matrix_world,
                   storage, noneRun>>

SetLensDistortionIterate ==
    /\ pc = "loop"
    /\ AboveThreshold(loc.res[Len(loc.res)])
    /\ \E error \in Errors(loc.it, loc.res[Len(loc.res)]) :
          LET out == set_lens_distortion_iteration(loc, error)
          IN  /\ out.loc.factor[2] <= Pow2(MaxHalvings)
              /\ loc' = out.loc
              /\ pc' = IF out.exc = "none" THEN "loop" ELSE "raised"
              /\ call' = IF out.exc = "none" THEN call
                         ELSE [call EXCEPT !.exc = out.exc]
    /\ UNCHANGED <<cam, render, dof, frame_end, keyframes, matrix_world,
                   storage, noneRun>>

SetLensDistortionFinish ==
    /\ pc = "loop"
    /\ ~AboveThreshold(loc.res[Len(loc.res)])
    /\ \E min_col \in UndColumnMins, max_over \in UndColumnMaxOvershoots,
          min_row \in UndRowMins, max_row_over \in UndRowMaxOvershoots :
          LET out == set_lens_distortion_finish(cam, render, storage, loc, min_col,
                         render.resolution_x - 1 + max_over, min_row,
                         render.resolution_y - 1 + max_row_over)
          IN  /\ cam' = out.cam
              /\ render' = out.render
              /\ storage' = out.storage
              /\ pc' = IF out.exc = "none" THEN "done" ELSE "raised"
              /\ call' = [op |-> "set_lens_distortion", exc |-> out.exc,
                          before |-> call.before,
                          last_error |-> loc.res[Len(loc.res)], x_measured |-> loc.x_measured,
                          x_used |-> loc.x,
                          cx_new |-> out.cx_new, cy_new |-> out.cy_new]
    /\ loc' = <<>>
    /\ UNCHANGED <<dof, frame_end, keyframes, matrix_world, noneRun>>

NextDist ==
    \/ SetLensDistortionBegin
    \/ SetLensDistortionIterate
    \/ SetLensDistortionFinish

SpecDist == InitDist /\ [][NextDist]_vars

Terminated == pc \in {"done", "raised"}
SolverRaised ==
    pc = "raised" /\ call.exc \in {"stalled_after_1000_iterations", "unstable"}
IterationStep == pc = "loop" /\ pc' \in {"loop", "raised"} /\ loc' # <<>>

\* C5: whenever set_lens_distortion finishes its iteration without raising,
\* the iterate (x, y) the stored backward mapping is built from is the
\* iterate whose maximum reprojection error was measured, and that error is
\* at most 0.2.
MappingFromMeasuredCoordinates ==
    pc = "done" =>
        /\ ~AboveThreshold(call.last_error)
        /\ call.x_used = call.x_measured

\* C6 as stated: the loop is never about to run again with the iteration
\* counter above 1000 and the error above 0.2, so it never executes more
\* than 1001 iterations.
NeverPastIterationCap ==
    pc = "loop" =>
        /\ loc.it > MaxIterations => ~AboveThreshold(loc.res[Len(loc.res)])
        /\ loc.it <= MaxIterations + 1

\* C6 as amended: an iteration whose counter exceeds 1000 and whose newly
\* measured error exceeds 0.999 times the previous one raises the
\* 'unstable/stalled after 1000 iterations' exception; the loop goes on past
\* 1000 iterations only while each error is at most 0.999 times the previous.
StallPastIterationCapRaises ==
    /\ (pc = "loop" /\ loc.it > MaxIterations)
          => ~AbovePoint999Of(loc.res[2], loc.res[1])
    /\ (pc = "raised" /\ call.exc = "stalled_after_1000_iterations")
          => (loc.it > MaxIterations /\ AbovePoint999Of(loc.res[2], loc.res[1]))
    /\ (SolverRaised /\ loc.it > MaxIterations)
          => call.exc = "stalled_after_1000_iterations"

StalledAfterCapRaised ==
    /\ pc = "raised"
    /\ call.exc = "stalled_after_1000_iterations"
    /\ loc.it = MaxIterations + 1
    /\ AboveThreshold(loc.res[2])

(* A variant of set_lens_distortion: up to the iteration cap every         *)
(* iteration uses up one of the MaxIterations; past it an iteration that   *)
(* does not raise has measured an error of at most 0.999 times the         *)
(* previous one, here at most half of it, which uses up one binary order   *)
(* of magnitude of the error above 0.125.                                  *)
RECURSIVE Log2Floor(_)
Log2Floor(m) == IF m <= 1 THEN 0 ELSE 1 + Log2Floor(m \div 2)

Headroom(error) ==
    IF error[1] = 0 THEN 0 ELSE error[2] + Log2Floor(error[1]) + 4

MaxHeadroom == MaxErrorExp + MaxHalvings + 4

Variant ==
    IF Terminated THEN 0
    ELSE IF pc = "idle" THEN MaxIterations + MaxHeadroom + 3
    ELSE IF loc.it <= MaxIterations
    THEN (MaxIterations - loc.it) + MaxHeadroom + 2
    ELSE Headroom(loc.res[Len(loc.res)]) + 1

\* some action of set_lens_distortion is enabled
CanStep ==
    \/ pc = "idle" /\ call.op = "none"
    \/ pc = "loop" /\ ~AboveThreshold(loc.res[Len(loc.res)])
    \/ /\ pc = "loop"
       /\ \E error \in Errors(loc.it, loc.res[Len(loc.res)]) :
             set_lens_distortion_iteration(loc, error).loc.factor[2] <= Pow2(MaxHalvings)

\* C7: the refinement loop of set_lens_distortion cannot iterate forever:
\* every step of the call strictly decreases a natural-number variant, and
\* the call can take a step until it has ended, by a measured error of at
\* most 0.2 or by one of its exceptions.
SolverTerminates ==
    /\ [][Variant' < Variant]_vars
    /\ [](Variant >= 0 /\ (Terminated \/ CanStep))

LongRunConverged ==
    /\ pc = "done"
    /\ call.x_used > MaxIterations
    /\ ~AboveThreshold(call.last_error)

\* C8: the step factor starts at 1.0; an iteration halves it exactly when its
\* counter is greater than 1 and the newly measured error exceeds 0.999 times
\* the previous one, and leaves it unchanged otherwise; it never increases,
\* never changes in the first iteration, and a solver exception is raised
\* only in an iteration that halved it.
FactorHalvedOnStall ==
    [][/\ (pc = "idle" /\ pc' = "loop") => loc'.factor = R(1)
       /\ IterationStep =>
             LET halved == loc'.it > 1 /\ AbovePoint999Of(loc'.res[2], loc.res[Len(loc.res)])
             IN  /\ loc'.it = loc.it + 1
                 /\ loc'.factor = IF halved THEN RMul(loc.factor, <<1, 2>>)
                                   ELSE loc.factor
                 /\ RGe(loc.factor, loc'.factor)
                 /\ loc'.it = 1 => loc'.factor = loc.factor
                 /\ pc' = "raised" => (halved /\ loc'.factor # loc.factor)]_vars

RaisedAfterSecondHalving ==
    /\ pc = "raised"
    /\ call.exc = "unstable"
    /\ loc.factor = <<1, 4>>

\* C9: when the solver raises, the camera settings, the render settings and
\* GlobalStorage are as they were before the call; when the call completes,
\* '_lens_distortion_is_used' holds the computed mapping_coords and
\* original_image_res = (resolution_y, resolution_x) as before the call.
StorageHoldsOriginalResolution ==
    /\ SolverRaised =>
          /\ cam = call.before.cam
          /\ render = call.before.render
          /\ storage = call.before.storage
    /\ pc = "done" =>
          /\ "_lens_distortion_is_used" \in DOMAIN storage
          /\ storage["_lens_distortion_is_used"].mapping_coords.x = call.x_used
          /\ storage["_lens_distortion_is_used"].original_image_res =
                <<call.before.render.resolution_y, call.before.render.resolution_x>>

StoredWithEnlargedResolution ==
    /\ pc = "done"
    /\ "_lens_distortion_is_used" \in DOMAIN storage
    /\ storage["_lens_distortion_is_used"].original_image_res = <<3, 4>>
    /\ render.resolution_x > 4
    /\ render.resolution_y > 3

\* C10: after a set_lens_distortion call that completes,
\* get_intrinsics_as_K_matrix() returns the fx and fy it returned before the
\* call with cx, cy replaced by cx_new, cy_new, and clip_start and clip_end
\* are the values set before the call.
DistortionKeepsFocalAndClip ==
    pc = "done" =>
        LET before == get_intrinsics_as_K_matrix(call.before.cam, call.before.render)
            after == get_intrinsics_as_K_matrix(cam, render)
        IN  /\ after = [before EXCEPT !.cx = call.cx_new, !.cy = call.cy_new]
            /\ cam.clip_start = call.before.cam.clip_start
            /\ cam.clip_end = call.before.cam.clip_end

PrincipalPointMoved ==
    /\ pc = "done"
    /\ cam.sensor_fit = "AUTO"
    /\ get_intrinsics_as_K_matrix(cam, render).cx = call.cx_new
    /\ call.cx_new # get_intrinsics_as_K_matrix(call.before.cam, call.before.render).cx
    /\ cam.lens # call.before.cam.lens

====
